---------------------------- MODULE Spec2Model ----------------------------
(***************************************************************************)
(* Temporal feature-assembly pipeline of the NFL data analysis repository: *)
(* team-game metric extraction and rolling windows (features/rolling.py),  *)
(* situational and market features (features/situational.py) and the       *)
(* modeling-table assembler (features/assemble.py).                        *)
(*                                                                         *)
(* Conventions.  A Python dict / pandas Series is a sequence of            *)
(* <<key, value>> pairs in insertion order; a DataFrame built from a list  *)
(* of dicts is the sequence of those dicts.  None / NaN of an optional     *)
(* field is <<>> and a present value v is <<v>>.  A float is an exact      *)
(* fraction <<n, d>> in lowest terms with d > 0; <<0, 0>> is NaN.          *)
(*                                                                         *)
(* Specifications.  Spec runs assemble_modeling_table on one season of up  *)
(* to MaxWeek weeks, one contest a week among three teams; SpecFour does   *)
(* the same with up to two contests a week; SpecRows drives the row        *)
(* methods of the assembler (_combine_team_features, _add_training_labels, *)
(* _ensure_no_leakage) on rows that carry the fields they read; SpecCalc   *)
(* calls calculate_rolling_features and calculate_situational_features on  *)
(* their own, on seasons of up to CalcWeeks weeks, with requests inside    *)
(* and outside the accepted range, large event values and event frames     *)
(* that lack a column.                                                     *)
(***************************************************************************)
EXTENDS Integers, Sequences, FiniteSets, TLC

\* ------------------------------------------------------------------ bounds
\* Weeks of a season that carry data in the explored inputs: 1..MaxWeek.
MaxWeek == 2

\* ------------------------------------------------------- program constants
start_season  == 2020
MinSeason     == 2000
MaxSeasonOk   == 2030
MaxWeekOk     == 22
l3_window     == 3
l5_window     == 5
l6_window     == 6
ewma_min_periods       == 3
early_season_min_weeks == 4

Teams == {"KC", "BUF", "NE"}

\* ----------------------------------------------------------------- values
NoneVal  == <<>>
Some(v)  == <<v>>
notna(x) == x # <<>>

RECURSIVE GCD(_, _)
GCD(a, b) == IF b = 0 THEN a ELSE GCD(b, a % b)

Abs(x) == IF x < 0 THEN -x ELSE x

NaN  == <<0, 0>>
Zero == <<0, 1>>
One  == <<1, 1>>
IsNaN(f) == f[2] = 0

\* The fraction n/d in lowest terms (d # 0).
Frac(n, d) ==
    LET g == GCD(Abs(n), Abs(d))
        s == IF d < 0 THEN -1 ELSE 1
    IN  <<(s * n) \div g, (s * d) \div g>>

FInt(n)    == <<n, 1>>
FAdd(a, b) == IF IsNaN(a) \/ IsNaN(b) THEN NaN
              ELSE Frac(a[1] * b[2] + b[1] * a[2], a[2] * b[2])
FNeg(a)    == IF IsNaN(a) THEN NaN ELSE <<-a[1], a[2]>>
FSub(a, b) == FAdd(a, FNeg(b))
FMul(a, b) == IF IsNaN(a) \/ IsNaN(b) THEN NaN
              ELSE Frac(a[1] * b[1], a[2] * b[2])
FDivInt(a, k) == IF IsNaN(a) THEN NaN ELSE Frac(a[1], a[2] * k)
FLess(a, b)   == a[1] * b[2] < b[1] * a[2]

early_season_shrinkage == Frac(4, 5)
ewma_alpha             == Frac(1, 2)

\* ------------------------------------------------------- dicts and frames
Keys(d)       == [i \in 1..Len(d) |-> d[i][1]]
HasKey(d, k)  == \E i \in 1..Len(d) : d[i][1] = k
Get(d, k)     == d[CHOOSE i \in 1..Len(d) : d[i][1] = k][2]
\* Series.get(key, default)
GetOr(d, k, dflt) == IF HasKey(d, k) THEN Get(d, k) ELSE dflt

RECURSIVE Concat(_)
Concat(ss) == IF ss = <<>> THEN <<>> ELSE Head(ss) \o Concat(Tail(ss))

Range(seq) == {seq[i] : i \in 1..Len(seq)}

\* --------------------------------------------------------- external data
\* SchedulesReader.load_schedules(season): the season's schedule, or a
\* raised error when the store holds none for that season.
ScheduleLoads(ss, season) == season \in DOMAIN ss
load_schedules(ss, season) == ss[season]

\* PBPReader.load_pbp(season, week): that week's plays, or a raised error.
PbpLoads(ps, season, w) == <<season, w>> \in DOMAIN ps
load_pbp(ps, season, w) == ps[<<season, w>>]

\* --------------------------------------------- rolling.py: team-game metrics
SumEpa(plays) ==
    LET RECURSIVE S(_)
        S(q) == IF q = <<>> THEN 0 ELSE Head(q).epa + S(Tail(q))
    IN  S(plays)

\* Variant: the quotient without the guard; 0 / 0 is not a number.
PerPlay_unguarded(total, n) == IF n = 0 THEN NaN ELSE Frac(total, n)

\* total / n if n > 0 else 0
PerPlay(total, n) == IF n > 0 THEN Frac(total, n) ELSE Zero

_get_empty_offensive_metrics ==
    << <<"off_epa_play", Zero>>, <<"off_pass_epa_play", Zero>>,
       <<"off_run_epa_play", Zero>>, <<"off_early_down_pass_epa_play", Zero>>,
       <<"off_success_rate", Zero>>, <<"off_total_plays", 0>>,
       <<"off_pass_plays", 0>>, <<"off_run_plays", 0>> >>

_get_empty_defensive_metrics ==
    << <<"def_epa_play_allowed", Zero>>, <<"def_pass_epa_play_allowed", Zero>>,
       <<"def_run_epa_play_allowed", Zero>>, <<"def_success_rate_allowed", Zero>>,
       <<"def_total_plays_faced", 0>>, <<"def_pass_plays_faced", 0>>,
       <<"def_run_plays_faced", 0>> >>

_calculate_offensive_metrics(game_pbp, team) ==
    LET team_offense == SelectSeq(game_pbp, LAMBDA p : p.posteam = team)
        total_plays  == Len(team_offense)
        pass_plays   == SelectSeq(team_offense, LAMBDA p : p.pass = 1)
        run_plays    == SelectSeq(team_offense, LAMBDA p : p.rush = 1)
        early_down_plays == SelectSeq(team_offense, LAMBDA p : p.down \in {1, 2})
        early_down_pass  == SelectSeq(early_down_plays, LAMBDA p : p.pass = 1)
        successful_plays == Len(SelectSeq(team_offense, LAMBDA p : p.epa > 0))
    IN  IF team_offense = <<>> THEN _get_empty_offensive_metrics
        ELSE << <<"off_epa_play", PerPlay(SumEpa(team_offense), total_plays)>>,
                <<"off_pass_epa_play", PerPlay(SumEpa(pass_plays), Len(pass_plays))>>,
                <<"off_run_epa_play", PerPlay(SumEpa(run_plays), Len(run_plays))>>,
                <<"off_early_down_pass_epa_play",
                  PerPlay(SumEpa(early_down_pass), Len(early_down_pass))>>,
                <<"off_success_rate", PerPlay(successful_plays, total_plays)>>,
                <<"off_total_plays", total_plays>>,
                <<"off_pass_plays", Len(pass_plays)>>,
                <<"off_run_plays", Len(run_plays)>> >>

_calculate_defensive_metrics(game_pbp, team) ==
    LET team_defense == SelectSeq(game_pbp, LAMBDA p : p.defteam = team)
        total_plays_faced == Len(team_defense)
        pass_plays_faced  == SelectSeq(team_defense, LAMBDA p : p.pass = 1)
        run_plays_faced   == SelectSeq(team_defense, LAMBDA p : p.rush = 1)
        successful_plays_allowed == Len(SelectSeq(team_defense, LAMBDA p : p.epa > 0))
    IN  IF team_defense = <<>> THEN _get_empty_defensive_metrics
        ELSE << <<"def_epa_play_allowed", PerPlay(SumEpa(team_defense), total_plays_faced)>>,
                <<"def_pass_epa_play_allowed",
                  PerPlay(SumEpa(pass_plays_faced), Len(pass_plays_faced))>>,
                <<"def_run_epa_play_allowed",
                  PerPlay(SumEpa(run_plays_faced), Len(run_plays_faced))>>,
                <<"def_success_rate_allowed",
                  PerPlay(successful_plays_allowed, total_plays_faced)>>,
                <<"def_total_plays_faced", total_plays_faced>>,
                <<"def_pass_plays_faced", Len(pass_plays_faced)>>,
                <<"def_run_plays_faced", Len(run_plays_faced)>> >>

\* {f"def_{k}": v for k, v in defense.items()}: the keys the defensive
\* metrics already carry, prefixed once more.
DefPrefixed(k) == "def_" \o k

PrefixDef(d) == [i \in 1..Len(d) |-> <<DefPrefixed(d[i][1]), d[i][2]>>]

\* pbp_df['game_id'].unique(): the game ids in order of first appearance
Unique(seq) ==
    LET RECURSIVE U(_, _)
        U(q, seen) == IF q = <<>> THEN <<>>
                      ELSE IF Head(q) \in seen THEN U(Tail(q), seen)
                      ELSE <<Head(q)>> \o U(Tail(q), seen \cup {Head(q)})
    IN  U(seq, {})

\* The column labels of a frame of plays: every row carries the labels of
\* the frame it was loaded in (field `columns`).  A frame handed to the
\* metric methods always has at least one row.
ColumnsOfPlays(game_pbp) == game_pbp[1].columns

\* Whether _calculate_offensive_metrics raises KeyError: game_pbp['posteam']
\* is read first; the other columns are read only past the early return
\* for a team without offensive plays.
OffensiveKeyError_nodown(game_pbp, team) ==
    \/ "posteam" \notin ColumnsOfPlays(game_pbp)
    \/ /\ SelectSeq(game_pbp, LAMBDA p : p.posteam = team) # <<>>
       /\ {"epa", "pass", "rush"} \ ColumnsOfPlays(game_pbp) # {}

OffensiveKeyError(game_pbp, team) ==
    \/ "posteam" \notin ColumnsOfPlays(game_pbp)
    \/ /\ SelectSeq(game_pbp, LAMBDA p : p.posteam = team) # <<>>
       /\ {"epa", "pass", "rush", "down"} \ ColumnsOfPlays(game_pbp) # {}

\* Whether _calculate_defensive_metrics raises KeyError.
DefensiveKeyError(game_pbp, team) ==
    \/ "defteam" \notin ColumnsOfPlays(game_pbp)
    \/ /\ SelectSeq(game_pbp, LAMBDA p : p.defteam = team) # <<>>
       /\ {"epa", "pass", "rush"} \ ColumnsOfPlays(game_pbp) # {}

\* Whether _calculate_team_game_metrics raises KeyError: some contest of the
\* frame that is on the schedule has a metric method raise.
MetricsKeyError(pbp_df, schedules_df) ==
    \E i \in 1..Len(pbp_df) :
        LET game_pbp  == SelectSeq(pbp_df, LAMBDA p : p.game_id = pbp_df[i].game_id)
            game_info == SelectSeq(schedules_df, LAMBDA g : g.game_id = pbp_df[i].game_id)
        IN  /\ game_info # <<>>
            /\ \/ OffensiveKeyError(game_pbp, game_info[1].home_team)
               \/ DefensiveKeyError(game_pbp, game_info[1].home_team)
               \/ OffensiveKeyError(game_pbp, game_info[1].away_team)
               \/ DefensiveKeyError(game_pbp, game_info[1].away_team)

TeamGameRecords(pbp_df, schedules_df, game_id) ==
    LET game_pbp  == SelectSeq(pbp_df, LAMBDA p : p.game_id = game_id)
        game_info == SelectSeq(schedules_df, LAMBDA g : g.game_id = game_id)
        info      == game_info[1]
        Rec(team, opp, home) ==
            << <<"season", info.season>>, <<"week", info.week>>,
               <<"game_id", game_id>>, <<"team", team>>, <<"opponent", opp>>,
               <<"home", home>> >>
            \o _calculate_offensive_metrics(game_pbp, team)
            \o PrefixDef(_calculate_defensive_metrics(game_pbp, team))
    IN  IF game_info = <<>> THEN <<>>
        ELSE << Rec(info.home_team, info.away_team, TRUE),
                Rec(info.away_team, info.home_team, FALSE) >>

_calculate_team_game_metrics(pbp_df, schedules_df) ==
    LET ids == Unique([i \in 1..Len(pbp_df) |-> pbp_df[i].game_id])
    IN  Concat([i \in 1..Len(ids) |-> TeamGameRecords(pbp_df, schedules_df, ids[i])])

\* ------------------------------------------- rolling.py: rolling windows
\* The nine window features, in the order the code writes them, each with
\* the team-game metric column it averages.
WindowMetrics ==
    << <<"off_epa_play", "off_epa_play">>,
       <<"off_pass_epa_play", "off_pass_epa_play">>,
       <<"off_run_epa_play", "off_run_epa_play">>,
       <<"off_early_down_pass_epa_play", "off_early_down_pass_epa_play">>,
       <<"off_success_rate", "off_success_rate">>,
       <<"def_epa_play_allowed", "def_def_epa_play_allowed">>,
       <<"def_pass_epa_play_allowed", "def_def_pass_epa_play_allowed">>,
       <<"def_run_epa_play_allowed", "def_def_run_epa_play_allowed">>,
       <<"def_success_rate_allowed", "def_def_success_rate_allowed">> >>

\* f'{metric}_{window_name}'
Suffixed(m, window_name) == m \o "_" \o window_name

\* getattr(self, f'{window_name}_window', 3)
WindowSize(window_name) ==
    CASE window_name = "l3" -> l3_window
      [] window_name = "l5" -> l5_window
      [] window_name = "l6" -> l6_window
      [] OTHER -> 3

\* Variant: the first n rows, the oldest of the history.
TailN_head(seq, n) == IF Len(seq) <= n THEN seq ELSE SubSeq(seq, 1, n)

\* DataFrame.tail(n)
TailN(seq, n) == IF Len(seq) <= n THEN seq ELSE SubSeq(seq, Len(seq) - n + 1, Len(seq))

\* Series.mean() of one column of a non-empty frame
ColumnMean(rows, col) ==
    LET RECURSIVE S(_)
        S(q) == IF q = <<>> THEN Zero ELSE FAdd(Get(Head(q), col), S(Tail(q)))
    IN  FDivInt(S(rows), Len(rows))

\* Variant: a short window is shrunk in every week of the season.
_get_shrinkage_factor_anyweek(data_length, window_name, current_week) ==
    IF data_length < WindowSize(window_name) THEN early_season_shrinkage ELSE One

_get_shrinkage_factor(data_length, window_name, current_week) ==
    IF current_week >= early_season_min_weeks THEN One
    ELSE IF data_length < WindowSize(window_name) THEN early_season_shrinkage
    ELSE One

\* Variant: the features of an empty window are missing values.
_get_empty_window_features_nan(window_name) ==
    [i \in 1..Len(WindowMetrics) |-> <<Suffixed(WindowMetrics[i][1], window_name), NaN>>]

_get_empty_window_features(window_name) ==
    [i \in 1..Len(WindowMetrics) |-> <<Suffixed(WindowMetrics[i][1], window_name), Zero>>]

_get_empty_ewma_features == _get_empty_window_features("ewma")

_calculate_window_features(window_data, window_name, current_week) ==
    IF window_data = <<>> THEN _get_empty_window_features(window_name)
    ELSE LET shrinkage_factor ==
                 _get_shrinkage_factor(Len(window_data), window_name, current_week)
         IN  [i \in 1..Len(WindowMetrics) |->
                <<Suffixed(WindowMetrics[i][1], window_name),
                  FMul(ColumnMean(window_data, WindowMetrics[i][2]), shrinkage_factor)>>]

\* Series.ewm(alpha, min_periods).mean().iloc[-1] (adjust=True): the
\* weighted mean with weights (1 - alpha)^k, k the age of the row; NaN
\* while fewer than min_periods rows have been seen.
EwmLast(rows, col) ==
    LET RECURSIVE Num(_)
        Num(q) == IF q = <<>> THEN Zero
                  ELSE FAdd(FMul(Num(SubSeq(q, 1, Len(q) - 1)), FSub(One, ewma_alpha)),
                            Get(q[Len(q)], col))
        RECURSIVE Den(_)
        Den(k) == IF k = 0 THEN Zero
                  ELSE FAdd(FMul(Den(k - 1), FSub(One, ewma_alpha)), One)
        n == Num(rows)
        d == Den(Len(rows))
    IN  IF Len(rows) < ewma_min_periods THEN NaN
        ELSE Frac(n[1] * d[2], n[2] * d[1])

_calculate_ewma_features(historical_data) ==
    IF historical_data = <<>> THEN _get_empty_ewma_features
    ELSE [i \in 1..Len(WindowMetrics) |->
            <<Suffixed(WindowMetrics[i][1], "ewma"),
              EwmLast(historical_data, WindowMetrics[i][2])>>]

\* Variant: the default row leaves out the l6 window.
_create_default_rolling_features_l3l5(team, season, week) ==
    << <<"season", season>>, <<"week", week>>, <<"team", team>> >>
    \o _get_empty_window_features("l3")
    \o _get_empty_window_features("l5")
    \o _get_empty_ewma_features

_create_default_rolling_features(team, season, week) ==
    << <<"season", season>>, <<"week", week>>, <<"team", team>> >>
    \o _get_empty_window_features("l3")
    \o _get_empty_window_features("l5")
    \o _get_empty_window_features("l6")
    \o _get_empty_ewma_features

_calculate_team_rolling_features(historical_data, team, season, week) ==
    << <<"season", season>>, <<"week", week>>, <<"team", team>> >>
    \o _calculate_window_features(TailN(historical_data, l3_window), "l3", week)
    \o _calculate_window_features(TailN(historical_data, l5_window), "l5", week)
    \o _calculate_window_features(TailN(historical_data, l6_window), "l6", week)
    \o _calculate_ewma_features(historical_data)

\* DataFrame.sort_values('week'): ascending, rows of equal week keep
\* their order.
SortByWeek(rows) ==
    LET RECURSIVE Ins(_, _)
        Ins(sorted, r) ==
            IF sorted = <<>> THEN <<r>>
            ELSE IF Get(sorted[Len(sorted)], "week") <= Get(r, "week")
                 THEN Append(sorted, r)
                 ELSE Append(Ins(SubSeq(sorted, 1, Len(sorted) - 1), r), sorted[Len(sorted)])
        RECURSIVE Srt(_)
        Srt(q) == IF q = <<>> THEN <<>>
                  ELSE Ins(Srt(SubSeq(q, 1, Len(q) - 1)), q[Len(q)])
    IN  Srt(rows)

\* Variant: the window also takes the row of the current week.
HistoricalData_upto(team_data, current_week) ==
    SelectSeq(team_data, LAMBDA r : Get(r, "week") <= current_week)

\* Variant: the history is the previous week's rows only.
HistoricalData_previous(team_data, current_week) ==
    SelectSeq(team_data, LAMBDA r : Get(r, "week") = current_week - 1)

\* historical_data = team_data[team_data['week'] < current_week]
HistoricalData(team_data, current_week) ==
    SelectSeq(team_data, LAMBDA r : Get(r, "week") < current_week)

TeamRollingRows(team_game_metrics, team, season, week) ==
    LET team_data == SortByWeek(SelectSeq(team_game_metrics,
                                          LAMBDA r : Get(r, "team") = team))
        Row(historical_data, current_week) ==
            IF historical_data = <<>>
            THEN _create_default_rolling_features(team, season, current_week)
            ELSE _calculate_team_rolling_features(historical_data, team,
                                                  season, current_week)
    IN  [current_week \in 1..week |->
           Row(HistoricalData(team_data, current_week), current_week)]

\* The frame of rolling rows, team by team in order of first appearance
\* and, for each team, week by week (metrics frame non-empty).
_calculate_rolling_windows(team_game_metrics, season, week) ==
    LET teams == Unique([i \in 1..Len(team_game_metrics) |->
                           Get(team_game_metrics[i], "team")])
    IN  Concat([i \in 1..Len(teams) |->
                  TeamRollingRows(team_game_metrics, teams[i], season, week)])

\* A call's outcome: err = "" and the value, or the raised error.
Ok(v)      == [err |-> "", val |-> v]
Raised(e)  == [err |-> e, val |-> <<>>]

\* Variant: any week from 1 on is accepted.
ValidRequest_noupper(season, week) ==
    /\ ~(season < MinSeason \/ season > MaxSeasonOk)
    /\ ~(week < 1)

\* Input validation shared by both calculators.
ValidRequest(season, week) ==
    /\ ~(season < MinSeason \/ season > MaxSeasonOk)
    /\ ~(week < 1 \/ week > MaxWeekOk)

\* The error of a request that is not valid: the season is checked first.
RangeError(season, week) ==
    IF season < MinSeason \/ season > MaxSeasonOk THEN "ValueError: Invalid season"
    ELSE "ValueError: Invalid week"

\* The weekly frames that loaded, concatenated in week order; a week whose
\* load raises is skipped.
_load_pbp_data(ps, season, week) ==
    LET RECURSIVE Frames(_)
        Frames(w) == IF w = 0 THEN <<>>
                     ELSE Frames(w - 1)
                          \o (IF PbpLoads(ps, season, w)
                               THEN <<load_pbp(ps, season, w)>> ELSE <<>>)
        all_pbp_data == Frames(week)
    IN  IF all_pbp_data = <<>> THEN Raised("ValueError: No PBP data available")
        ELSE Ok(Concat(all_pbp_data))

calculate_rolling_features(ss, ps, season, week) ==
    LET FromMetrics(team_game_metrics) ==
            \* an empty metrics frame has no 'team' column
            IF team_game_metrics = <<>> THEN Raised("KeyError")
            ELSE Ok(_calculate_rolling_windows(team_game_metrics, season, week))
        FromPbp(pbp_df) ==
            IF pbp_df.err # "" THEN pbp_df
            ELSE IF ~ScheduleLoads(ss, season) THEN Raised("LoadError")
            ELSE IF MetricsKeyError(pbp_df.val, load_schedules(ss, season))
                 THEN Raised("KeyError")
            ELSE FromMetrics(_calculate_team_game_metrics(pbp_df.val,
                                                          load_schedules(ss, season)))
    IN  IF ~ValidRequest(season, week) THEN Raised(RangeError(season, week))
        ELSE FromPbp(_load_pbp_data(ps, season, week))

\* ------------------------------------------------------- situational.py
\* Variant: a team that returns from one bye week gets the label 10.
_calculate_rest_days_bye10(games_df, team, current_week) ==
    LET team_games == SelectSeq(games_df, LAMBDA g : g.home_team = team)
                      \o SelectSeq(games_df, LAMBDA g : g.away_team = team)
        previous_games == SelectSeq(team_games, LAMBDA g : g.week < current_week)
        last_game_week ==
            CHOOSE w \in {previous_games[i].week : i \in 1..Len(previous_games)} :
                \A i \in 1..Len(previous_games) : previous_games[i].week <= w
    IN  IF previous_games = <<>> THEN 7
        ELSE IF current_week - last_game_week = 2 THEN 10
        ELSE (current_week - last_game_week) * 7

\* Variant: the contest of the current week counts as a previous one.
_calculate_rest_days_upto(games_df, team, current_week) ==
    LET team_games == SelectSeq(games_df, LAMBDA g : g.home_team = team)
                      \o SelectSeq(games_df, LAMBDA g : g.away_team = team)
        previous_games == SelectSeq(team_games, LAMBDA g : g.week <= current_week)
        last_game_week ==
            CHOOSE w \in {previous_games[i].week : i \in 1..Len(previous_games)} :
                \A i \in 1..Len(previous_games) : previous_games[i].week <= w
    IN  IF previous_games = <<>> THEN 7 ELSE (current_week - last_game_week) * 7

_calculate_rest_days(games_df, team, current_week) ==
    LET home_games == SelectSeq(games_df, LAMBDA g : g.home_team = team)
        away_games == SelectSeq(games_df, LAMBDA g : g.away_team = team)
        team_games == home_games \o away_games
        previous_games == SelectSeq(team_games, LAMBDA g : g.week < current_week)
        last_game_week ==
            CHOOSE w \in {previous_games[i].week : i \in 1..Len(previous_games)} :
                \A i \in 1..Len(previous_games) : previous_games[i].week <= w
        days_between_weeks == (current_week - last_game_week) * 7
    IN  IF previous_games = <<>> THEN 7
        ELSE IF days_between_weeks = 7 THEN 7
        ELSE IF days_between_weeks = 6 THEN 6
        ELSE IF days_between_weeks = 10 THEN 10
        ELSE IF days_between_weeks = 14 THEN 14
        ELSE days_between_weeks

GameSituationalRows(games_df, game) ==
    LET home_rest_days == _calculate_rest_days(games_df, game.home_team, game.week)
        away_rest_days == _calculate_rest_days(games_df, game.away_team, game.week)
    IN  << << <<"season", game.season>>, <<"week", game.week>>,
              <<"game_id", game.game_id>>, <<"team", game.home_team>>,
              <<"opponent", game.away_team>>, <<"situational_home", TRUE>>,
              <<"situational_rest_days", home_rest_days>>,
              <<"situational_spread_close", game.spread_line>>,
              <<"total_close", game.total_line>>,
              <<"moneyline_close", game.moneyline>>,
              <<"opponent_rest_days", away_rest_days>> >>,
           << <<"season", game.season>>, <<"week", game.week>>,
              <<"game_id", game.game_id>>, <<"team", game.away_team>>,
              <<"opponent", game.home_team>>, <<"situational_home", FALSE>>,
              <<"situational_rest_days", away_rest_days>>,
              <<"situational_spread_close", -game.spread_line>>,
              <<"total_close", game.total_line>>,
              <<"moneyline_close", game.moneyline>>,
              <<"opponent_rest_days", home_rest_days>> >> >>

_calculate_basic_situational_features(schedules_df, season, week) ==
    LET games_df == SelectSeq(schedules_df, LAMBDA g : g.week <= week)
    IN  Concat([i \in 1..Len(games_df) |-> GameSituationalRows(games_df, games_df[i])])

\* Variant: the defensive EPA allowed counts as strength.
_calculate_sos_factor_plusdef(opponent_off_epa, opponent_def_epa_allowed, opponent_off_success, opponent_def_success_allowed) ==
    LET combined_strength  ==
            FDivInt(FAdd(FAdd(FAdd(opponent_off_epa, opponent_def_epa_allowed),
                              opponent_off_success),
                         FSub(One, opponent_def_success_allowed)), 4)
        sos_factor == FAdd(One, FMul(combined_strength, Frac(1, 10)))
        capped     == IF FLess(Frac(2, 1), sos_factor) THEN Frac(2, 1) ELSE sos_factor
    IN  IF FLess(capped, Frac(1, 2)) THEN Frac(1, 2) ELSE capped

\* Variant: the factor is bounded below only.
_calculate_sos_factor_nocap(opponent_off_epa, opponent_def_epa_allowed, opponent_off_success, opponent_def_success_allowed) ==
    LET combined_strength  ==
            FDivInt(FAdd(FAdd(FAdd(opponent_off_epa, FNeg(opponent_def_epa_allowed)),
                              opponent_off_success),
                         FSub(One, opponent_def_success_allowed)), 4)
        sos_factor == FAdd(One, FMul(combined_strength, Frac(1, 10)))
    IN  IF FLess(sos_factor, Frac(1, 2)) THEN Frac(1, 2) ELSE sos_factor

_calculate_sos_factor(opponent_off_epa, opponent_def_epa_allowed, opponent_off_success, opponent_def_success_allowed) ==
    LET off_strength       == opponent_off_epa
        def_strength       == FNeg(opponent_def_epa_allowed)
        off_success_factor == opponent_off_success
        def_success_factor == FSub(One, opponent_def_success_allowed)
        combined_strength  ==
            FDivInt(FAdd(FAdd(FAdd(off_strength, def_strength), off_success_factor),
                         def_success_factor), 4)
        sos_factor == FAdd(One, FMul(combined_strength, Frac(1, 10)))
        capped     == IF FLess(Frac(2, 1), sos_factor) THEN Frac(2, 1) ELSE sos_factor
    IN  IF FLess(capped, Frac(1, 2)) THEN Frac(1, 2) ELSE capped

\* Variant: an opponent row whose four L3 metrics are zero counts as absent.
SosRow_zeroneutral(rolling_features, row) ==
    LET team_rolling ==
            SelectSeq(rolling_features,
                      LAMBDA r : /\ Get(r, "team") = Get(row, "team")
                                 /\ Get(r, "week") = Get(row, "week"))
        opponent_rolling ==
            SelectSeq(rolling_features,
                      LAMBDA r : /\ Get(r, "team") = Get(row, "opponent")
                                 /\ Get(r, "week") = Get(row, "week"))
        Metric(k) == GetOr(opponent_rolling[1], k, Zero)
        L3Keys == {"off_epa_play_l3", "def_epa_play_allowed_l3",
                 "off_success_rate_l3", "def_success_rate_allowed_l3"}
        IsAbsent == \/ team_rolling = <<>> \/ opponent_rolling = <<>>
                  \/ \A k \in L3Keys : Metric(k) = Zero
        Value(k) == IF IsAbsent THEN Zero ELSE Metric(k)
    IN  << <<"season", Get(row, "season")>>, <<"week", Get(row, "week")>>,
           <<"team", Get(row, "team")>>,
           <<"opponent_off_epa_l3", Value("off_epa_play_l3")>>,
           <<"opponent_def_epa_allowed_l3", Value("def_epa_play_allowed_l3")>>,
           <<"opponent_off_success_l3", Value("off_success_rate_l3")>>,
           <<"opponent_def_success_allowed_l3", Value("def_success_rate_allowed_l3")>>,
           <<"sos_adjustment_factor",
             IF IsAbsent THEN One
             ELSE _calculate_sos_factor(Metric("off_epa_play_l3"),
                                        Metric("def_epa_play_allowed_l3"),
                                        Metric("off_success_rate_l3"),
                                        Metric("def_success_rate_allowed_l3"))>> >>

\* Variant: without a rolling row the factor is computed from zero metrics.
SosRow_computed(rolling_features, row) ==
    LET opponent_rolling ==
            SelectSeq(rolling_features,
                      LAMBDA r : /\ Get(r, "team") = Get(row, "opponent")
                                 /\ Get(r, "week") = Get(row, "week"))
        Metric(k) == IF opponent_rolling = <<>> THEN Zero
                     ELSE GetOr(opponent_rolling[1], k, Zero)
    IN  << <<"season", Get(row, "season")>>, <<"week", Get(row, "week")>>,
           <<"team", Get(row, "team")>>,
           <<"opponent_off_epa_l3", Metric("off_epa_play_l3")>>,
           <<"opponent_def_epa_allowed_l3", Metric("def_epa_play_allowed_l3")>>,
           <<"opponent_off_success_l3", Metric("off_success_rate_l3")>>,
           <<"opponent_def_success_allowed_l3", Metric("def_success_rate_allowed_l3")>>,
           <<"sos_adjustment_factor",
             _calculate_sos_factor(Metric("off_epa_play_l3"),
                                   Metric("def_epa_play_allowed_l3"),
                                   Metric("off_success_rate_l3"),
                                   Metric("def_success_rate_allowed_l3"))>> >>

SosRow(rolling_features, row) ==
    LET team      == Get(row, "team")
        opponent  == Get(row, "opponent")
        game_week == Get(row, "week")
        team_rolling ==
            SelectSeq(rolling_features,
                      LAMBDA r : Get(r, "team") = team /\ Get(r, "week") = game_week)
        opponent_rolling ==
            SelectSeq(rolling_features,
                      LAMBDA r : Get(r, "team") = opponent /\ Get(r, "week") = game_week)
        opponent_data == opponent_rolling[1]
        opponent_off_epa == GetOr(opponent_data, "off_epa_play_l3", Zero)
        opponent_def_epa_allowed == GetOr(opponent_data, "def_epa_play_allowed_l3", Zero)
        opponent_off_success == GetOr(opponent_data, "off_success_rate_l3", Zero)
        opponent_def_success_allowed ==
            GetOr(opponent_data, "def_success_rate_allowed_l3", Zero)
        head == << <<"season", Get(row, "season")>>, <<"week", Get(row, "week")>>,
                   <<"team", team>> >>
    IN  IF team_rolling = <<>> \/ opponent_rolling = <<>>
        THEN head \o << <<"opponent_off_epa_l3", Zero>>,
                        <<"opponent_def_epa_allowed_l3", Zero>>,
                        <<"opponent_off_success_l3", Zero>>,
                        <<"opponent_def_success_allowed_l3", Zero>>,
                        <<"sos_adjustment_factor", One>> >>
        ELSE head \o << <<"opponent_off_epa_l3", opponent_off_epa>>,
                        <<"opponent_def_epa_allowed_l3", opponent_def_epa_allowed>>,
                        <<"opponent_off_success_l3", opponent_off_success>>,
                        <<"opponent_def_success_allowed_l3", opponent_def_success_allowed>>,
                        <<"sos_adjustment_factor",
                          _calculate_sos_factor(opponent_off_epa, opponent_def_epa_allowed,
                                                opponent_off_success,
                                                opponent_def_success_allowed)>> >>

\* The frame of SoS rows, one per situational row, or the error the
\* rolling calculation raised.
_calculate_sos_adjustments(ss, ps, situational_features, season, week) ==
    LET With(rolling_features) ==
            IF rolling_features.err # "" THEN rolling_features
            ELSE Ok([i \in 1..Len(situational_features) |->
                       SosRow(rolling_features.val, situational_features[i])])
    IN  With(calculate_rolling_features(ss, ps, season, week))

\* pd.merge(left, right, on=['season', 'week', 'team'], how='left') of two
\* non-empty frames: every left row, once per right row with the same key,
\* extended by that row's other columns.
SameKey(l, r) ==
    /\ Get(l, "season") = Get(r, "season")
    /\ Get(l, "week") = Get(r, "week")
    /\ Get(l, "team") = Get(r, "team")

NonKey(r) == SelectSeq(r, LAMBDA kv : kv[1] \notin {"season", "week", "team"})

MergeLeft(left, right) ==
    Concat([i \in 1..Len(left) |->
              LET matches == SelectSeq(right, LAMBDA r : SameKey(left[i], r))
              IN  [j \in 1..Len(matches) |-> left[i] \o NonKey(matches[j])]])

calculate_situational_features(ss, ps, season, week) ==
    LET Combined(situational_features, sos_features) ==
            IF sos_features.err # "" THEN sos_features
            \* merging two frames without columns raises
            ELSE IF situational_features = <<>> THEN Raised("KeyError")
            ELSE Ok(MergeLeft(situational_features, sos_features.val))
        With(situational_features) ==
            Combined(situational_features,
                     _calculate_sos_adjustments(ss, ps, situational_features,
                                                season, week))
    IN  IF ~ValidRequest(season, week) THEN Raised(RangeError(season, week))
        ELSE IF ~ScheduleLoads(ss, season) THEN Raised("LoadError")
        ELSE With(_calculate_basic_situational_features(load_schedules(ss, season),
                                                        season, week))

\* ----------------------------------------------------------- assemble.py
\* f'rolling_{col}' / f'situational_{col}' for every column outside `skip`
Prefixed(prefix, data, skip) ==
    LET cols == SelectSeq(data, LAMBDA kv : kv[1] \notin skip)
    IN  [i \in 1..Len(cols) |-> <<prefix \o cols[i][1], cols[i][2]>>]

\* Variant: the market spread is given from the team's side, negated for
\* the visiting team.
_combine_team_features_flipped(rolling_data, situational_data, game_data, team_type) ==
    IF \/ ~HasKey(rolling_data, "team")
       \/ ~HasKey(situational_data, "opponent")
       \/ ~HasKey(situational_data, "home")
    THEN Raised("KeyError")
    ELSE Ok(<< <<"season", game_data.season>>,
               <<"week", game_data.week>>,
               <<"game_id", game_data.game_id>>,
               <<"team", Get(rolling_data, "team")>>,
               <<"opponent", Get(situational_data, "opponent")>>,
               <<"home", Get(situational_data, "home")>>,
               <<"team_type", team_type>> >>
            \o Prefixed("rolling_", rolling_data, {"season", "week", "team"})
            \o Prefixed("situational_", situational_data,
                        {"season", "week", "team", "opponent"})
            \o << <<"market_spread_close",
                    IF team_type = "away" THEN -game_data.spread_line
                    ELSE game_data.spread_line>>,
                  <<"market_total_close", game_data.total_line>>,
                  <<"market_moneyline_close", game_data.moneyline>>,
                  <<"home_score", game_data.home_score>>,
                  <<"away_score", game_data.away_score>>,
                  <<"result", game_data.result>> >>)

\* The feature dict of one team, or the KeyError of the first field read
\* that the given row does not carry.
_combine_team_features(rolling_data, situational_data, game_data, team_type) ==
    IF \/ ~HasKey(rolling_data, "team")
       \/ ~HasKey(situational_data, "opponent")
       \/ ~HasKey(situational_data, "home")
    THEN Raised("KeyError")
    ELSE Ok(<< <<"season", game_data.season>>,
               <<"week", game_data.week>>,
               <<"game_id", game_data.game_id>>,
               <<"team", Get(rolling_data, "team")>>,
               <<"opponent", Get(situational_data, "opponent")>>,
               <<"home", Get(situational_data, "home")>>,
               <<"team_type", team_type>> >>
            \o Prefixed("rolling_", rolling_data, {"season", "week", "team"})
            \o Prefixed("situational_", situational_data,
                        {"season", "week", "team", "opponent"})
            \o << <<"market_spread_close", game_data.spread_line>>,
                  <<"market_total_close", game_data.total_line>>,
                  <<"market_moneyline_close", game_data.moneyline>>,
                  <<"home_score", game_data.home_score>>,
                  <<"away_score", game_data.away_score>>,
                  <<"result", game_data.result>> >>)

\* frame[frame['team'] == team]
TeamRows(frame, team) == SelectSeq(frame, LAMBDA r : Get(r, "team") = team)

\* One call of _assemble_game_features: ret is None (<<>>) or <<list>>;
\* combine lists the arguments of the _combine_team_features calls it made.
_assemble_game_features(ss, ps, game, season, week) ==
    LET Combine(home_rolling, home_situational, away_rolling, away_situational) ==
            LET home_called   == home_rolling # <<>> /\ home_situational # <<>>
                home_features == _combine_team_features(home_rolling[1],
                                                        home_situational[1], game, "home")
                home_raised   == home_called /\ home_features.err # ""
                away_called   == /\ ~home_raised
                                 /\ away_rolling # <<>> /\ away_situational # <<>>
                away_features == _combine_team_features(away_rolling[1],
                                                        away_situational[1], game, "away")
                away_raised   == away_called /\ away_features.err # ""
                combine ==
                    (IF home_called
                     THEN <<[team_type |-> "home", rolling_data |-> home_rolling[1],
                             situational_data |-> home_situational[1]]>> ELSE <<>>)
                    \o (IF away_called
                        THEN <<[team_type |-> "away", rolling_data |-> away_rolling[1],
                                situational_data |-> away_situational[1]]>> ELSE <<>>)
                game_features ==
                    (IF home_called THEN <<home_features.val>> ELSE <<>>)
                    \o (IF away_called THEN <<away_features.val>> ELSE <<>>)
            IN  IF home_raised \/ away_raised
                THEN [ret |-> NoneVal, err |-> "KeyError", combine |-> combine]
                ELSE [ret |-> IF game_features # <<>> THEN Some(game_features)
                              ELSE NoneVal,
                      err |-> "", combine |-> combine]
        With(rolling_features, situational_features) ==
            \* except Exception: log a warning, return None
            IF rolling_features.err # ""
            THEN [ret |-> NoneVal, err |-> rolling_features.err, combine |-> <<>>]
            ELSE IF situational_features.err # ""
            THEN [ret |-> NoneVal, err |-> situational_features.err, combine |-> <<>>]
            ELSE Combine(TeamRows(rolling_features.val, game.home_team),
                         TeamRows(situational_features.val, game.home_team),
                         TeamRows(rolling_features.val, game.away_team),
                         TeamRows(situational_features.val, game.away_team))
    IN  With(calculate_rolling_features(ss, ps, season, week),
             calculate_situational_features(ss, ps, season, week))

\* The seasons' schedules that loaded, concatenated; an error when none did.
_load_all_schedules(ss, start, end_season) ==
    LET RECURSIVE Frames(_)
        Frames(s) == IF s < start THEN <<>>
                     ELSE Frames(s - 1)
                          \o (IF ScheduleLoads(ss, s)
                               THEN <<load_schedules(ss, s)>> ELSE <<>>)
        all == Frames(end_season)
    IN  IF all = <<>> THEN Raised("ValueError: No schedules data available")
        ELSE Ok(Concat(all))

\* pd.DataFrame(list of dicts): the columns in order of first appearance,
\* every row over all columns (NaN where the dict has no such key).
RECURSIVE ColumnsOf(_)
ColumnsOf(dicts) ==
    IF dicts = <<>> THEN <<>>
    ELSE LET WithPrev(prev) ==
                 prev \o SelectSeq(Keys(dicts[Len(dicts)]), LAMBDA k : k \notin Range(prev))
         IN  WithPrev(ColumnsOf(SubSeq(dicts, 1, Len(dicts) - 1)))

DataFrame(dicts) ==
    LET columns == ColumnsOf(dicts)
    IN  [columns |-> columns,
         rows    |-> [i \in 1..Len(dicts) |->
                        [c \in 1..Len(columns) |->
                           <<columns[c], GetOr(dicts[i], columns[c], NoneVal)>>]]]

\* Variant: a tie on the scores counts as a win.
LabelWin_ties(row, schedules_df) ==
    LET is_home   == Get(row, "home")
        found     == SelectSeq(schedules_df, LAMBDA g : g.game_id = Get(row, "game_id"))
        game_data == found[1]
    IN  IF found = <<>> THEN NoneVal
        ELSE IF notna(game_data.result)
        THEN IF is_home
             THEN Some(IF game_data.result[1] > 0 THEN 1 ELSE 0)
             ELSE Some(IF game_data.result[1] < 0 THEN 1 ELSE 0)
        ELSE IF notna(game_data.home_score) /\ notna(game_data.away_score)
        THEN IF is_home
             THEN Some(IF game_data.home_score[1] >= game_data.away_score[1] THEN 1 ELSE 0)
             ELSE Some(IF game_data.away_score[1] >= game_data.home_score[1] THEN 1 ELSE 0)
        ELSE NoneVal

\* label_win of one row: None (<<>>), <<1>> or <<0>>
LabelWin(row, schedules_df) ==
    LET is_home   == Get(row, "home")
        found     == SelectSeq(schedules_df, LAMBDA g : g.game_id = Get(row, "game_id"))
        game_data == found[1]
    IN  IF found = <<>> THEN NoneVal
        ELSE IF notna(game_data.result)
        THEN IF is_home
             THEN Some(IF game_data.result[1] > 0 THEN 1 ELSE 0)
             ELSE Some(IF game_data.result[1] < 0 THEN 1 ELSE 0)
        ELSE IF notna(game_data.home_score) /\ notna(game_data.away_score)
        THEN IF is_home
             THEN Some(IF game_data.home_score[1] > game_data.away_score[1] THEN 1 ELSE 0)
             ELSE Some(IF game_data.away_score[1] > game_data.home_score[1] THEN 1 ELSE 0)
        ELSE NoneVal

_add_training_labels(modeling_df, schedules_df) ==
    [columns |-> Append(modeling_df.columns, "label_win"),
     rows    |-> [i \in 1..Len(modeling_df.rows) |->
                    Append(modeling_df.rows[i],
                           <<"label_win", LabelWin(modeling_df.rows[i], schedules_df)>>)]]

\* Variant: only the result column is listed.
future_cols_result == {"result"}

future_cols == {"home_score", "away_score", "result"}

\* Variant: the scores are dropped, the result column is kept.
_ensure_no_leakage_scores(modeling_df) ==
    [columns |-> SelectSeq(modeling_df.columns,
                           LAMBDA c : c \notin {"home_score", "away_score"}),
     rows    |-> [i \in 1..Len(modeling_df.rows) |->
                    SelectSeq(modeling_df.rows[i],
                              LAMBDA kv : kv[1] \notin {"home_score", "away_score"})]]

_ensure_no_leakage(modeling_df) ==
    [columns |-> SelectSeq(modeling_df.columns, LAMBDA c : c \notin future_cols),
     rows    |-> [i \in 1..Len(modeling_df.rows) |->
                    SelectSeq(modeling_df.rows[i], LAMBDA kv : kv[1] \notin future_cols)]]

\* Variant: only the season is compared.
IsFutureGame_season(game, season, week) ==
    game.season > season

\* if game_season > season or (game_season == season and game_week > week)
IsFutureGame(game, season, week) ==
    game.season > season \/ (game.season = season /\ game.week > week)

\* ------------------------------------------------------------ input data
\* The outcome fields of a contest not played yet, and of a played one
\* (final score and signed result, home minus away).
Unplayed == [home_score |-> NoneVal, away_score |-> NoneVal, result |-> NoneVal]

FinalScore(w) ==
    IF w % 2 = 1
    THEN [home_score |-> Some(24), away_score |-> Some(17), result |-> Some(7)]
    ELSE [home_score |-> Some(17), away_score |-> Some(20), result |-> Some(-3)]

\* One contest of the schedule.
Game(s, w, h, a, outcome) ==
    [game_id    |-> <<s, w, a, h>>,
     season     |-> s,
     week       |-> w,
     home_team  |-> h,
     away_team  |-> a,
     spread_line |-> 2 * w - 7,
     total_line  |-> 40 + w,
     moneyline   |-> -110,
     home_score  |-> outcome.home_score,
     away_score  |-> outcome.away_score,
     result      |-> outcome.result]

\* The columns of the events frame that the metric methods read.
PbpColumns == {"game_id", "posteam", "defteam", "epa", "pass", "rush", "down"}

\* The plays of a played contest, in a frame with every column.
Plays(g) ==
    << [game_id |-> g.game_id, posteam |-> g.home_team, defteam |-> g.away_team,
        epa |-> 10 * g.week, pass |-> 1, rush |-> 0, down |-> 1,
        columns |-> PbpColumns],
       [game_id |-> g.game_id, posteam |-> g.home_team, defteam |-> g.away_team,
        epa |-> -20, pass |-> 0, rush |-> 1, down |-> 3,
        columns |-> PbpColumns],
       [game_id |-> g.game_id, posteam |-> g.away_team, defteam |-> g.home_team,
        epa |-> 30 - 10 * g.week, pass |-> 1, rush |-> 0, down |-> 2,
        columns |-> PbpColumns] >>

\* A week's slot: no contest (<<>>) or <<home, away, played>>.
Slots ==
    {<<>>} \cup {<<h, a, p>> : h \in Teams, a \in Teams, p \in BOOLEAN}

WeekGames(s, slots, w) ==
    IF slots[w] = <<>> \/ slots[w][1] = slots[w][2] THEN <<>>
    ELSE <<Game(s, w, slots[w][1], slots[w][2],
                IF slots[w][3] THEN FinalScore(w) ELSE Unplayed)>>

ScheduleOf(s, slots) == Concat([w \in 1..MaxWeek |-> WeekGames(s, slots, w)])

WeekPlays(s, slots, w) ==
    LET gs == WeekGames(s, slots, w)
    IN  IF gs # <<>> /\ slots[w][3] THEN Plays(gs[1]) ELSE <<>>

\* Schedules with a second contest in a week: the team left over by the
\* first contest hosts MIA; second is "none", "played" or "unplayed".
Slots4 ==
    {<<>>} \cup {<<h, a, p, second>> : h \in Teams, a \in Teams, p \in BOOLEAN,
                                       second \in {"none", "played", "unplayed"}}

WeekGames4(s, slots, w) ==
    IF slots[w] = <<>> \/ slots[w][1] = slots[w][2] THEN <<>>
    ELSE <<Game(s, w, slots[w][1], slots[w][2],
                IF slots[w][3] THEN FinalScore(w) ELSE Unplayed)>>
         \o (IF slots[w][4] = "none" THEN <<>>
             ELSE <<Game(s, w, CHOOSE t \in Teams : t \notin {slots[w][1], slots[w][2]},
                         "MIA",
                         IF slots[w][4] = "played" THEN FinalScore(w) ELSE Unplayed)>>)

ScheduleOf4(s, slots) == Concat([w \in 1..MaxWeek |-> WeekGames4(s, slots, w)])

WeekPlays4(s, slots, w) ==
    LET gs == WeekGames4(s, slots, w)
    IN  Concat([k \in 1..Len(gs) |->
                  IF gs[k].result # NoneVal THEN Plays(gs[k]) ELSE <<>>])

\* ----------------------------------------------------------------- state
VARIABLES
    sched_store,         \* season -> schedule frame, for the seasons on store
    pbp_store,           \* <<season, week>> -> frame of plays, where on store
    req_season,          \* assemble_modeling_table(season, week, use_historical_data)
    req_week,
    use_historical_data,
    pc,                  \* position in assemble_modeling_table
    all_schedules,       \* the loaded schedule frame
    idx,                 \* next row of all_schedules.iterrows()
    modeling_data,       \* list of feature dicts
    calls,               \* the _assemble_game_features calls made so far
    modeling_df,         \* the table being built / returned
    raised,              \* the error raised to the caller, "" if none
    rolling_out,         \* outcome of calculate_rolling_features(req_season, req_week)
    situational_out      \* outcome of calculate_situational_features(req_season, req_week)

vars == <<sched_store, pbp_store, req_season, req_week, use_historical_data, pc,
          all_schedules, idx, modeling_data, calls, modeling_df, raised,
          rolling_out, situational_out>>

\* The calculators' outcomes, while they are not called on their own.
NotCalled == [err |-> "not called", val |-> <<>>]

calc == <<rolling_out, situational_out>>

inputs == <<sched_store, pbp_store, req_season, req_week, use_historical_data>>

EmptyFrame == [columns |-> <<>>, rows |-> <<>>]

Init ==
    /\ \E slots \in [1..MaxWeek -> Slots] :
          /\ \A w \in 1..MaxWeek : slots[w] # <<>> => slots[w][1] # slots[w][2]
          \* team names are interchangeable: the first week's contest, if any,
          \* is BUF at KC
          /\ slots[1] # <<>> => slots[1][1] = "KC" /\ slots[1][2] = "BUF"
          /\ sched_store = [s \in {start_season} |-> ScheduleOf(s, slots)]
          \* a week without events has no file: its load raises
          /\ pbp_store = [k \in {k \in {start_season} \X (1..MaxWeek) :
                                    WeekPlays(k[1], slots, k[2]) # <<>>} |->
                            WeekPlays(k[1], slots, k[2])]
    /\ req_season \in {start_season, start_season + 1}
    /\ req_week \in 1..MaxWeek
    /\ use_historical_data \in BOOLEAN
    /\ pc = "start"
    /\ all_schedules = <<>>
    /\ idx = 1
    /\ modeling_data = <<>>
    /\ calls = <<>>
    /\ modeling_df = EmptyFrame
    /\ raised = ""
    /\ rolling_out = NotCalled
    /\ situational_out = NotCalled

InitFour ==
    /\ \E slots \in [1..MaxWeek -> Slots4] :
          /\ \A w \in 1..MaxWeek : slots[w] # <<>> => slots[w][1] # slots[w][2]
          /\ slots[1] # <<>> => slots[1][1] = "KC" /\ slots[1][2] = "BUF"
          /\ sched_store = [s \in {start_season} |-> ScheduleOf4(s, slots)]
          /\ pbp_store = [k \in {k \in {start_season} \X (1..MaxWeek) :
                                    WeekPlays4(k[1], slots, k[2]) # <<>>} |->
                            WeekPlays4(k[1], slots, k[2])]
    /\ req_season \in {start_season, start_season + 1}
    /\ req_week \in 1..MaxWeek
    /\ use_historical_data \in BOOLEAN
    /\ pc = "start"
    /\ all_schedules = <<>>
    /\ idx = 1
    /\ modeling_data = <<>>
    /\ calls = <<>>
    /\ modeling_df = EmptyFrame
    /\ raised = ""
    /\ rolling_out = NotCalled
    /\ situational_out = NotCalled

\* --------------------------------------------- assemble_modeling_table
StartSeason == IF use_historical_data THEN start_season ELSE req_season

LoadAllSchedules ==
    /\ pc = "start"
    /\ LET loaded == _load_all_schedules(sched_store, StartSeason, req_season)
       IN  IF loaded.err # ""
           THEN /\ raised' = loaded.err
                /\ pc' = "raised"
                /\ UNCHANGED all_schedules
           ELSE /\ all_schedules' = loaded.val
                /\ pc' = "loop"
                /\ UNCHANGED raised
    /\ UNCHANGED <<inputs, calc, idx, modeling_data, calls, modeling_df>>

SkipFutureGame ==
    /\ pc = "loop"
    /\ idx <= Len(all_schedules)
    /\ IsFutureGame(all_schedules[idx], req_season, req_week)
    /\ idx' = idx + 1
    /\ UNCHANGED <<inputs, calc, pc, all_schedules, modeling_data, calls, modeling_df, raised>>

AssembleGame ==
    /\ pc = "loop"
    /\ idx <= Len(all_schedules)
    /\ ~IsFutureGame(all_schedules[idx], req_season, req_week)
    /\ LET Extend(game, game_features) ==
               /\ modeling_data' = IF game_features.ret # NoneVal
                                    THEN modeling_data \o game_features.ret[1]
                                    ELSE modeling_data
               /\ calls' = Append(calls, [game |-> game, ret |-> game_features.ret,
                                          err |-> game_features.err,
                                          combine |-> game_features.combine])
       IN  Extend(all_schedules[idx],
                  _assemble_game_features(sched_store, pbp_store, all_schedules[idx],
                                          all_schedules[idx].season,
                                          all_schedules[idx].week))
    /\ idx' = idx + 1
    /\ UNCHANGED <<inputs, calc, pc, all_schedules, modeling_df, raised>>

AddTrainingLabels ==
    /\ pc = "loop"
    /\ idx > Len(all_schedules)
    /\ modeling_df' = _add_training_labels(DataFrame(modeling_data), all_schedules)
    /\ pc' = "labelled"
    /\ UNCHANGED <<inputs, calc, all_schedules, idx, modeling_data, calls, raised>>

EnsureNoLeakage ==
    /\ pc = "labelled"
    /\ modeling_df' = _ensure_no_leakage(modeling_df)
    /\ pc' = "returned"
    /\ UNCHANGED <<inputs, calc, all_schedules, idx, modeling_data, calls, raised>>

Next ==
    \/ LoadAllSchedules
    \/ SkipFutureGame
    \/ AssembleGame
    \/ AddTrainingLabels
    \/ EnsureNoLeakage

Spec == Init /\ [][Next]_vars

\* The same program on schedules with up to two contests a week.
SpecFour == InitFour /\ [][Next]_vars

\* ------------------------------------- the row-building methods, driven
\* directly: _combine_team_features on rows that carry the fields it reads,
\* then _add_training_labels and _ensure_no_leakage on the rows it built.

\* Outcome fields as a schedule may carry them: scores and result each
\* present or absent.
Outcomes ==
    {[home_score |-> sc[1], away_score |-> sc[2], result |-> r] :
        sc \in {<<NoneVal, NoneVal>>, <<Some(24), Some(17)>>, <<Some(17), Some(24)>>,
                <<Some(17), Some(17)>>, <<Some(24), NoneVal>>},
        r \in {NoneVal, Some(-7), Some(0), Some(7)}}

TeamSeq == <<"KC", "BUF", "NE">>
HomeOf(w) == TeamSeq[((w - 1) % 3) + 1]
AwayOf(w) == TeamSeq[(w % 3) + 1]

\* A situational row as _combine_team_features reads it: the row of the
\* situational calculator with the home flag under the name 'home'.
WithHome(row) == row \o << <<"home", Get(row, "situational_home")>> >>

\* The two feature dicts of one contest.
CombineBoth(schedules_df, game) ==
    LET sit == GameSituationalRows(schedules_df, game)
    IN  << _combine_team_features(
               _create_default_rolling_features(game.home_team, game.season, game.week),
               WithHome(sit[1]), game, "home").val,
           _combine_team_features(
               _create_default_rolling_features(game.away_team, game.season, game.week),
               WithHome(sit[2]), game, "away").val >>

InitRows ==
    \* one contest carries any of the outcome fields, the other weeks
    \* have a played contest or none
    /\ \E v \in 1..MaxWeek, o \in Outcomes, present \in [1..MaxWeek -> BOOLEAN] :
          sched_store =
              [s \in {start_season} |->
                 Concat([w \in 1..MaxWeek |->
                           IF w = v THEN <<Game(s, w, HomeOf(w), AwayOf(w), o)>>
                           ELSE IF present[w]
                           THEN <<Game(s, w, HomeOf(w), AwayOf(w), FinalScore(w))>>
                           ELSE <<>>])]
    /\ pbp_store = [k \in {} |-> <<>>]
    /\ req_season = start_season
    /\ req_week = MaxWeek
    /\ use_historical_data = TRUE
    /\ pc = "rows"
    /\ all_schedules = sched_store[start_season]
    /\ idx = 1
    /\ modeling_data = <<>>
    /\ calls = <<>>
    /\ modeling_df = EmptyFrame
    /\ raised = ""
    /\ rolling_out = NotCalled
    /\ situational_out = NotCalled

CombineGame ==
    /\ pc = "rows"
    /\ idx <= Len(all_schedules)
    /\ modeling_data' = modeling_data \o CombineBoth(all_schedules, all_schedules[idx])
    /\ idx' = idx + 1
    /\ UNCHANGED <<inputs, calc, pc, all_schedules, calls, modeling_df, raised>>

RowsBuilt ==
    /\ pc = "rows"
    /\ idx > Len(all_schedules)
    /\ pc' = "loop"
    /\ UNCHANGED <<inputs, calc, all_schedules, idx, modeling_data, calls, modeling_df, raised>>

NextRows ==
    \/ CombineGame
    \/ RowsBuilt
    \/ AddTrainingLabels
    \/ EnsureNoLeakage

SpecRows == InitRows /\ [][NextRows]_vars

TypeOK ==
    /\ pc \in {"start", "loop", "labelled", "returned", "raised", "rows", "calc"}
    /\ raised \in {"", "ValueError: No schedules data available"}
    /\ idx \in 1..(Len(all_schedules) + 1)

\* ------------------------------------ the two calculators, called on
\* their own: calculate_rolling_features and calculate_situational_features
\* for one request, on a season of up to CalcWeeks weeks in which KC plays
\* every contest: BUF visits KC in odd weeks, KC visits NE in even weeks.
CalcWeeks == 4

\* What a week holds: no contest, a played contest with events, a contest
\* without events, or the played contest and the return match in one week.
CalcKinds == {"none", "played", "unplayed", "double"}

CalcGames(s, kinds, w) ==
    LET h == IF w % 2 = 1 THEN "KC" ELSE "NE"
        a == IF w % 2 = 1 THEN "BUF" ELSE "KC"
    IN  CASE kinds[w] = "none"     -> <<>>
          [] kinds[w] = "played"   -> <<Game(s, w, h, a, FinalScore(w))>>
          [] kinds[w] = "unplayed" -> <<Game(s, w, h, a, Unplayed)>>
          [] kinds[w] = "double"   -> <<Game(s, w, h, a, FinalScore(w)),
                                        Game(s, w, a, h, FinalScore(w + 1))>>

CalcSchedule(s, kinds) == Concat([w \in 1..CalcWeeks |-> CalcGames(s, kinds, w)])

\* The events of a contest as stored: epa multiplied by `scale`, in a
\* frame without column `missing`, and of the plays only those that
\* `selection` names: of both sides, of the home or the away side, the pass
\* or the rush plays, or all plays as third-down plays ("late").
\* Every play is attributed to the two teams of its contest.
StoredPlays(g, scale, selection, missing) ==
    LET kept == SelectSeq(Plays(g),
                          LAMBDA p : \/ selection \in {"both", "late"}
                                     \/ selection = "home" /\ p.posteam = g.home_team
                                     \/ selection = "away" /\ p.posteam = g.away_team
                                     \/ selection = "pass" /\ p.pass = 1
                                     \/ selection = "rush" /\ p.rush = 1)
    IN  [i \in 1..Len(kept) |->
           [kept[i] EXCEPT !.epa = @ * scale, !.columns = @ \ {missing},
                           !.down = IF selection = "late" THEN 3 ELSE @]]

CalcPlays(s, kinds, w, scale, selection, missing) ==
    LET gs == CalcGames(s, kinds, w)
    IN  IF kinds[w] \in {"none", "unplayed"} THEN <<>>
        ELSE Concat([i \in 1..Len(gs) |-> StoredPlays(gs[i], scale, selection, missing)])

\* The requests and stores the calculators are called on.
FullCase(kinds, week) ==
    [kinds |-> kinds, season |-> start_season, week |-> week, scale |-> 1,
     selection |-> "both", missing |-> "none"]

CalcCases ==
    \* every season shape, every week of it
    {FullCase(kinds, week) : kinds \in [1..CalcWeeks -> CalcKinds], week \in 1..CalcWeeks}
    \* requests at and beyond the accepted range, on a store that holds the
    \* requested season, accepted or not
    \cup {[FullCase([w \in 1..CalcWeeks |-> "played"], week) EXCEPT !.season = season] :
            season \in {MinSeason - 1, MinSeason, MaxSeasonOk, MaxSeasonOk + 1},
            week \in {0, 1, MaxWeekOk, MaxWeekOk + 1}}
    \cup {FullCase([w \in 1..CalcWeeks |-> "played"], week) : week \in {0, MaxWeekOk, MaxWeekOk + 1}}
    \* events of large magnitude
    \cup {[FullCase(kinds, week) EXCEPT !.scale = 100] :
            kinds \in [1..CalcWeeks -> {"none", "played"}], week \in 1..CalcWeeks}
    \* event frames that lack a column, with plays of one side or of both
    \cup {[FullCase(kinds, CalcWeeks) EXCEPT !.selection = selection, !.missing = missing] :
            kinds \in [1..CalcWeeks -> {"none", "played"}],
            selection \in {"both", "home", "away"},
            missing \in PbpColumns \ {"game_id"}}
    \* complete frames that hold only some kinds of plays
    \cup {[FullCase(kinds, CalcWeeks) EXCEPT !.selection = selection] :
            kinds \in [1..CalcWeeks -> {"none", "played"}],
            selection \in {"home", "away", "pass", "rush", "late"}}

InitCalc ==
    /\ \E c \in CalcCases :
          /\ sched_store = [s \in {c.season} |-> CalcSchedule(s, c.kinds)]
          /\ pbp_store = [k \in {k \in {c.season} \X (1..CalcWeeks) :
                                    CalcPlays(k[1], c.kinds, k[2], c.scale,
                                              c.selection, c.missing) # <<>>} |->
                            CalcPlays(k[1], c.kinds, k[2], c.scale, c.selection, c.missing)]
          /\ req_season = c.season
          /\ req_week = c.week
    /\ use_historical_data = FALSE
    /\ pc = "calc"
    /\ all_schedules = <<>>
    /\ idx = 1
    /\ modeling_data = <<>>
    /\ calls = <<>>
    /\ modeling_df = EmptyFrame
    /\ raised = ""
    /\ rolling_out = NotCalled
    /\ situational_out = NotCalled

CalculateRolling ==
    /\ pc = "calc"
    /\ rolling_out = NotCalled
    /\ rolling_out' = calculate_rolling_features(sched_store, pbp_store,
                                                 req_season, req_week)
    /\ UNCHANGED <<inputs, pc, all_schedules, idx, modeling_data, calls, modeling_df,
                   raised, situational_out>>

CalculateSituational ==
    /\ pc = "calc"
    /\ situational_out = NotCalled
    /\ situational_out' = calculate_situational_features(sched_store, pbp_store,
                                                         req_season, req_week)
    /\ UNCHANGED <<inputs, pc, all_schedules, idx, modeling_data, calls, modeling_df,
                   raised, rolling_out>>

NextCalc == CalculateRolling \/ CalculateSituational

SpecCalc == InitCalc /\ [][NextCalc]_vars

\* ============================================================ properties

CallRolling(c) ==
    calculate_rolling_features(sched_store, pbp_store, c.game.season, c.game.week)

\* The event store with the epa of every play of week w or later changed.
PerturbFrom(ps, w) ==
    [k \in DOMAIN ps |->
       IF k[2] >= w
       THEN [i \in 1..Len(ps[k]) |-> [ps[k][i] EXCEPT !.epa = @ + 7]]
       ELSE ps[k]]

WeekRows(frame, w) == SelectSeq(frame, LAMBDA r : Get(r, "week") = w)

\* C2: the rolling row (T, W) is aggregated only from T's metric rows of
\* weeks strictly before W: in every rolling frame the assembler computes,
\* the rows of week W stay the same when the events of week W and later
\* (the target week's included, which are loaded) take other values.
C2_WindowsBeforeWeek ==
    \A i \in 1..Len(calls) :
       \A W \in 1..calls[i].game.week :
          LET Same(a, b) == a.err = b.err /\ WeekRows(a.val, W) = WeekRows(b.val, W)
          IN  Same(CallRolling(calls[i]),
                   calculate_rolling_features(sched_store, PerturbFrom(pbp_store, W),
                                              calls[i].game.season, calls[i].game.week))

\* A frame was computed for a week-2 contest whose events are loaded, and
\* it holds a week-2 row with a non-empty window.
C2_Witness ==
    \E i \in 1..Len(calls) :
       /\ calls[i].game.week = 2
       /\ PbpLoads(pbp_store, calls[i].game.season, 2)
       /\ CallRolling(calls[i]).err = ""
       /\ \E r \in Range(WeekRows(CallRolling(calls[i]).val, 2)) :
             /\ Get(r, "team") = calls[i].game.home_team
             /\ Get(r, "off_epa_play_l3") # Zero

\* C5 (as claimed): every contest of the loaded schedule that is not in the
\* future has exactly two rows in the returned table, one home, one away.
C5_TwoRowsPerContest ==
    pc = "returned" =>
       \A k \in 1..Len(all_schedules) :
          LET game == all_schedules[k]
              OfGame(h) == {i \in 1..Len(modeling_df.rows) :
                              /\ Get(modeling_df.rows[i], "game_id") = game.game_id
                              /\ Get(modeling_df.rows[i], "home") = h}
          IN  ~(game.season > req_season
                  \/ (game.season = req_season /\ game.week > req_week))
              => Cardinality(OfGame(TRUE)) = 1 /\ Cardinality(OfGame(FALSE)) = 1

\* C7: no contest of a season after the target season, or of the target
\* season and a week after the target week, is assembled or has a row.
C7_NoFutureRows ==
    LET Future(season, week) ==
            season > req_season \/ (season = req_season /\ week > req_week)
    IN  /\ \A i \in 1..Len(calls) :
              ~Future(calls[i].game.season, calls[i].game.week)
        /\ \A i \in 1..Len(modeling_data) :
              ~Future(Get(modeling_data[i], "season"), Get(modeling_data[i], "week"))
        /\ \A i \in 1..Len(modeling_df.rows) :
              ~Future(Get(modeling_df.rows[i], "season"), Get(modeling_df.rows[i], "week"))

\* The table was returned from a schedule that holds a contest after the
\* target week, and an earlier contest was assembled.
C7_Witness ==
    /\ pc = "returned"
    /\ calls # <<>>
    /\ \E k \in 1..Len(all_schedules) :
          all_schedules[k].season = req_season /\ all_schedules[k].week > req_week

\* C8 (as claimed): the rolling row joined to a contest of week g for team
\* T is the row keyed (T, season, g).
C8_RollingRowOfContestWeek ==
    \A i \in 1..Len(calls) :
       \A j \in 1..Len(calls[i].combine) :
          LET e == calls[i].combine[j]
          IN  /\ Get(e.rolling_data, "season") = calls[i].game.season
              /\ Get(e.rolling_data, "week") = calls[i].game.week
              /\ Get(e.rolling_data, "team") =
                    (IF e.team_type = "home" THEN calls[i].game.home_team
                     ELSE calls[i].game.away_team)

\* C9 (as claimed): the situational row joined to a contest is the row of
\* that contest itself for the team.
C9_SituationalRowOfContest ==
    \A i \in 1..Len(calls) :
       \A j \in 1..Len(calls[i].combine) :
          LET e == calls[i].combine[j]
          IN  /\ Get(e.situational_data, "game_id") = calls[i].game.game_id
              /\ Get(e.situational_data, "team") =
                    (IF e.team_type = "home" THEN calls[i].game.home_team
                     ELSE calls[i].game.away_team)

RowsTable(schedules_df) ==
    _ensure_no_leakage(
        _add_training_labels(
            DataFrame(Concat([k \in 1..Len(schedules_df) |->
                                CombineBoth(schedules_df, schedules_df[k])])),
            schedules_df))

WithOutcome(schedules_df, k, o) ==
    [schedules_df EXCEPT ![k] = [@ EXCEPT !.home_score = o.home_score,
                                          !.away_score = o.away_score,
                                          !.result = o.result]]

RowsOfGame(df, game_id) == SelectSeq(df.rows, LAMBDA r : Get(r, "game_id") = game_id)

NoLabel(rows) ==
    [i \in 1..Len(rows) |-> SelectSeq(rows[i], LAMBDA kv : kv[1] # "label_win")]

WithoutEvents(ps, game_id) ==
    [k \in DOMAIN ps |-> SelectSeq(ps[k], LAMBDA e : e.game_id # game_id)]

C16_EmptyRangeIsError ==
    pc = "returned" => modeling_df.rows # <<>>

\* C18 (as claimed): an error raised while one contest's features are built
\* reaches the caller: the table is never returned after such an error.
C18_ErrorsPropagate ==
    pc = "returned" => \A i \in 1..Len(calls) : calls[i].err = ""

\* The contests of the requested season's schedule in which a team plays.
ContestsOf(team) ==
    SelectSeq(sched_store[req_season],
              LAMBDA g : g.home_team = team \/ g.away_team = team)

\* The columns of a rolling row that hold features.
FeaturesOf(r) == SelectSeq(r, LAMBDA kv : kv[1] \notin {"season", "week", "team"})

\* C11: a team without a contest of a week before W has a rolling row of
\* week W whose L3, L5, L6 and EWMA features are all exactly zero, and the
\* rest days of its contest of week W are exactly 7.
C11_ZeroHistoryDefault ==
    LET NoEarlier(team, W) == \A g \in Range(ContestsOf(team)) : ~(g.week < W)
    IN  /\ rolling_out.err = "" =>
              \A r \in Range(rolling_out.val) :
                 NoEarlier(Get(r, "team"), Get(r, "week"))
                 => /\ Len(FeaturesOf(r)) = 4 * Len(WindowMetrics)
                    /\ \A kv \in Range(FeaturesOf(r)) : kv[2] = Zero
        /\ situational_out.err = "" =>
              \A r \in Range(situational_out.val) :
                 NoEarlier(Get(r, "team"), Get(r, "week"))
                 => Get(r, "situational_rest_days") = 7

\* Both calculators returned for week 2 or later; NE, whose first contest is
\* that of week 2, has its zero row and 7 rest days for week 2, next to KC,
\* whose week-2 row is computed from its week-1 contest.
C11_Witness ==
    /\ rolling_out.err = "" /\ situational_out.err = ""
    /\ \A g \in Range(ContestsOf("NE")) : g.week >= 2
    /\ \E r \in Range(rolling_out.val) :
          /\ Get(r, "team") = "NE" /\ Get(r, "week") = 2
          /\ \A kv \in Range(FeaturesOf(r)) : kv[2] = Zero
    /\ \E r \in Range(rolling_out.val) :
          /\ Get(r, "team") = "KC" /\ Get(r, "week") = 2
          /\ Get(r, "off_epa_play_l3") # Zero
    /\ \E r \in Range(situational_out.val) :
          /\ Get(r, "team") = "NE" /\ Get(r, "week") = 2
          /\ Get(r, "situational_rest_days") = 7

\* C12: the sos_adjustment_factor of every situational row, computed from
\* the opponent's rolling row or defaulted, is a number between 0.5 and 2.0.
C12_SosClamped ==
    situational_out.err = "" =>
       \A r \in Range(situational_out.val) :
          LET InRange(f) ==
                  ~IsNaN(f) /\ ~FLess(f, Frac(1, 2)) /\ ~FLess(Frac(2, 1), f)
          IN  HasKey(r, "sos_adjustment_factor")
              /\ InRange(Get(r, "sos_adjustment_factor"))

\* One frame holds a row whose opponent is far stronger than the upper
\* bound allows for (factor 2.0), a row whose opponent is far weaker
\* (factor 0.5), and a row whose factor, computed from an opponent without
\* history, lies strictly inside the range.
C12_Witness ==
    /\ situational_out.err = ""
    /\ \E a, b, c \in Range(situational_out.val) :
          /\ Get(a, "sos_adjustment_factor") = Frac(2, 1)
          /\ FLess(Frac(100, 1), Get(a, "opponent_off_epa_l3"))
          /\ Get(b, "sos_adjustment_factor") = Frac(1, 2)
          /\ FLess(Get(b, "opponent_off_epa_l3"), Frac(-100, 1))
          /\ Get(c, "sos_adjustment_factor") = Frac(41, 40)
          /\ Get(c, "opponent_off_epa_l3") = Zero

\* The team-game metric rows of the request: of the events loaded for
\* weeks 1..req_week and the season's schedule.
RequestMetrics ==
    _calculate_team_game_metrics(_load_pbp_data(pbp_store, req_season, req_week).val,
                                 load_schedules(sched_store, req_season))

\* A team's metric rows of weeks before W, in week order.
HistoryBefore(metrics, team, W) ==
    SortByWeek(SelectSeq(metrics, LAMBDA m : Get(m, "team") = team /\ Get(m, "week") < W))

\* C13: every L3/L5/L6 feature of a rolling row (T, W) with history is the
\* mean over the last N rows of T's history times a factor, which is the
\* shrinkage constant exactly when W is below the early-season threshold
\* and the window holds fewer than N rows, and 1 otherwise.
C13_ShrinkageRule ==
    rolling_out.err = "" =>
       LET Rule(r, history, W) ==
               \A wn \in {"l3", "l5", "l6"} :
                  LET window == TailN(history, WindowSize(wn))
                      factor == IF W < early_season_min_weeks
                                   /\ Len(window) < WindowSize(wn)
                                THEN early_season_shrinkage ELSE One
                  IN  \A i \in 1..Len(WindowMetrics) :
                         Get(r, Suffixed(WindowMetrics[i][1], wn))
                           = FMul(ColumnMean(window, WindowMetrics[i][2]), factor)
           Rows(metrics) ==
               \A r \in Range(rolling_out.val) :
                  LET WithHistory(history) ==
                          history # <<>> => Rule(r, history, Get(r, "week"))
                  IN  WithHistory(HistoryBefore(metrics, Get(r, "team"), Get(r, "week")))
       IN  Rows(RequestMetrics)

\* KC played in weeks 1 and 2 (off_epa_play -5 and 10): its L3 value of
\* week 3 is the two-game mean 5/2 times 4/5; and its L5 value of week 4,
\* from three games, is the plain mean, not shrunk.
C13_Witness ==
    /\ rolling_out.err = ""
    /\ Len(HistoryBefore(RequestMetrics, "KC", 3)) = 2
    /\ Len(HistoryBefore(RequestMetrics, "KC", 4)) = 3
    /\ \E r \in Range(rolling_out.val) :
          /\ Get(r, "team") = "KC" /\ Get(r, "week") = 3
          /\ Get(r, "off_epa_play_l3") = Frac(2, 1)
          /\ ColumnMean(HistoryBefore(RequestMetrics, "KC", 3), "off_epa_play") = Frac(5, 2)
    /\ \E r \in Range(rolling_out.val) :
          /\ Get(r, "team") = "KC" /\ Get(r, "week") = 4
          /\ Get(r, "off_epa_play_l5")
               = ColumnMean(HistoryBefore(RequestMetrics, "KC", 4), "off_epa_play")
          /\ Get(r, "off_epa_play_l5") # Zero

\* C14: the rest days of team T in a contest of week g are 7 when T has no
\* contest of a week before g, and otherwise 7 * (g - p), p the latest
\* week before g in which T played; the same holds for the opponent's rest
\* days.  Contests of week g or later do not enter.
C14_RestDays ==
    situational_out.err = "" =>
       \A r \in Range(situational_out.val) :
          LET WeeksBefore(team) ==
                  {g.week : g \in {c \in Range(ContestsOf(team)) : c.week < Get(r, "week")}}
              Expected(weeks) ==
                  IF weeks = {} THEN 7
                  ELSE 7 * (Get(r, "week") - (CHOOSE p \in weeks : \A q \in weeks : q <= p))
          IN  /\ Get(r, "situational_rest_days") = Expected(WeeksBefore(Get(r, "team")))
              /\ Get(r, "opponent_rest_days") = Expected(WeeksBefore(Get(r, "opponent")))

\* BUF played in week 1 and plays again in week 3: 14 rest days, with KC,
\* which also played in week 2, at 7; a contest of week 4 is in the range.
C14_Witness ==
    /\ situational_out.err = ""
    /\ \E g \in Range(ContestsOf("BUF")) : g.week = 1
    /\ \E g \in Range(ContestsOf("KC")) : g.week = 4
    /\ req_week = 4
    /\ \E r \in Range(situational_out.val) :
          /\ Get(r, "team") = "BUF" /\ Get(r, "week") = 3
          /\ Get(r, "situational_rest_days") = 14
          /\ Get(r, "opponent_rest_days") = 7

\* A team's metric rows in week order, the number of them that the
\* rolling computation takes as history for week W, and the number a
\* window of size N uses of them.
TeamData(metrics, team) ==
    SortByWeek(SelectSeq(metrics, LAMBDA m : Get(m, "team") = team))

Eligible(team_data, W) == Len(HistoricalData(team_data, W))

UsedBy(team_data, W, N) == Len(TailN(HistoricalData(team_data, W), N))

\* C15: for every team, the number of history rows eligible for week W does
\* not decrease as W grows, and neither does the number each of the L3, L5
\* and L6 windows uses, which is the smaller of N and the eligible number.
C15_WindowMonotone ==
    rolling_out.err = "" =>
       \A team \in Teams :
          LET Monotone(team_data) ==
                  \A W \in 1..req_week :
                     /\ W < req_week => Eligible(team_data, W) <= Eligible(team_data, W + 1)
                     /\ \A N \in {l3_window, l5_window, l6_window} :
                           /\ UsedBy(team_data, W, N)
                                = (IF Eligible(team_data, W) < N
                                   THEN Eligible(team_data, W) ELSE N)
                           /\ W < req_week
                              => UsedBy(team_data, W, N) <= UsedBy(team_data, W + 1, N)
          IN  Monotone(TeamData(RequestMetrics, team))

\* KC's history grows from week to week, past the size of the L3 window:
\* four rows are eligible for week 4, of which L3 uses three and L5 four.
C15_Witness ==
    /\ rolling_out.err = ""
    /\ req_week = 4
    /\ LET Grows(team_data) ==
               /\ Eligible(team_data, 2) < Eligible(team_data, 3)
               /\ Eligible(team_data, 3) < Eligible(team_data, 4)
               /\ Eligible(team_data, 4) = 4
               /\ UsedBy(team_data, 4, l3_window) = 3
               /\ UsedBy(team_data, 4, l5_window) = 4
       IN  Grows(TeamData(RequestMetrics, "KC"))

\* C17: both calculators raise the range error for every request with a
\* season outside 2000..2030 or a week outside 1..22, whatever the store
\* holds for the requested season, and raise no range error for a request
\* inside these ranges.
C17_RangeValidation ==
    \A out \in {rolling_out, situational_out} :
       out # NotCalled =>
          IF req_season < 2000 \/ req_season > 2030
          THEN out = Raised("ValueError: Invalid season")
          ELSE IF req_week < 1 \/ req_week > 22
          THEN out = Raised("ValueError: Invalid week")
          ELSE out.err \notin {"ValueError: Invalid season", "ValueError: Invalid week"}

\* Both calculators rejected a request for week 23 of a season whose
\* schedule and events are on store.
C17_Witness ==
    /\ req_week = 23
    /\ ScheduleLoads(sched_store, req_season)
    /\ PbpLoads(pbp_store, req_season, 1)
    /\ rolling_out = Raised("ValueError: Invalid week")
    /\ situational_out = Raised("ValueError: Invalid week")

\* C19 (as claimed): when a team's metric history holds two rows of the
\* same week, the rolling computation ends in an error: a frame is returned
\* only if no team has two history rows of one week.
C19_DuplicateWeekSurfaced ==
    rolling_out.err = "" =>
       LET NoDuplicate(metrics) ==
               \A i, j \in 1..Len(metrics) :
                  (/\ i # j
                   /\ Get(metrics[i], "team") = Get(metrics[j], "team")
                   /\ Get(metrics[i], "week") < req_week)
                  => Get(metrics[i], "week") # Get(metrics[j], "week")
       IN  NoDuplicate(RequestMetrics)

\* The event columns that the metric extraction requires.
RequiredEventColumns == {"posteam", "defteam", "epa", "down", "pass", "rush"}

\* C20: when the loaded events frame lacks one of the required columns, the
\* metric extraction raises KeyError, whichever side of a contest has
\* plays, and calculate_rolling_features returns no frame.  (A frame that
\* lacks a column reaches the extraction because load_pbp only warns when
\* the schema check fails.)
C20_SchemaFailure ==
    LET Lacking(pbp_df) ==
            /\ pbp_df.err = ""
            /\ RequiredEventColumns \ ColumnsOfPlays(pbp_df.val) # {}
    IN  (/\ rolling_out # NotCalled
         /\ req_season \in 2000..2030 /\ req_week \in 1..22
         /\ Lacking(_load_pbp_data(pbp_store, req_season, req_week)))
        => rolling_out = Raised("KeyError")

\* The frame lacks the column `down` and holds plays of the visiting side
\* only, in every contest: the extraction raised KeyError.
C20_Witness ==
    /\ rolling_out = Raised("KeyError")
    /\ DOMAIN pbp_store # {}
    /\ \A k \in DOMAIN pbp_store :
          \A p \in Range(pbp_store[k]) :
             /\ p.columns = PbpColumns \ {"down"}
             /\ \E g \in Range(sched_store[req_season]) :
                   g.game_id = p.game_id /\ p.posteam = g.away_team

\* The rolling frame and the basic situational rows of the request.
RequestRolling ==
    calculate_rolling_features(sched_store, pbp_store, req_season, req_week)

RequestBasic ==
    _calculate_basic_situational_features(load_schedules(sched_store, req_season),
                                          req_season, req_week)

\* Whether a rolling frame holds a row for a team and week.
HasRollingRow(frame, team, week) ==
    \E r \in Range(frame) : Get(r, "team") = team /\ Get(r, "week") = week

C22_PairSymmetry ==
    situational_out.err = "" =>
       \A g \in Range(sched_store[req_season]) :
          g.week <= req_week =>
             LET RowsOf(h) == SelectSeq(situational_out.val,
                                        LAMBDA r : /\ Get(r, "game_id") = g.game_id
                                                   /\ Get(r, "situational_home") = h)
                 Paired(home, away) ==
                     /\ Get(home, "team") = g.home_team
                     /\ Get(away, "team") = g.away_team
                     /\ Get(away, "situational_spread_close")
                          = -Get(home, "situational_spread_close")
                     /\ Get(away, "total_close") = Get(home, "total_close")
                     /\ Get(away, "moneyline_close") = Get(home, "moneyline_close")
                     /\ Get(home, "opponent_rest_days") = Get(away, "situational_rest_days")
                     /\ Get(away, "opponent_rest_days") = Get(home, "situational_rest_days")
             IN  /\ Len(RowsOf(TRUE)) = 1
                 /\ Len(RowsOf(FALSE)) = 1
                 /\ Paired(RowsOf(TRUE)[1], RowsOf(FALSE)[1])

\* The events on store of one contest.
StoredEventsOf(game_id) ==
    SelectSeq(Concat([w \in 1..CalcWeeks |->
                        IF PbpLoads(pbp_store, req_season, w)
                        THEN load_pbp(pbp_store, req_season, w) ELSE <<>>]),
              LAMBDA p : p.game_id = game_id)

\* C23: every offensive and defensive metric that the extraction derives
\* from the events of a contest is a number; a team without offensive
\* (defensive) plays has all offensive (defensive) rates and counts zero,
\* and a team with plays but without pass, rush or early-down pass plays
\* has zero for that per-play rate.
C23_NoDivisionByZero ==
    \A g \in Range(sched_store[req_season]), team \in Teams :
       LET Checked(game_pbp, off, def) ==
               LET team_offense == SelectSeq(game_pbp, LAMBDA p : p.posteam = team)
                   team_defense == SelectSeq(game_pbp, LAMBDA p : p.defteam = team)
                   None(plays, Is(_)) == \A p \in Range(plays) : ~Is(p)
                   IsPass(p) == p.pass = 1
                   IsRush(p) == p.rush = 1
                   IsEarlyPass(p) == p.down \in {1, 2} /\ p.pass = 1
                   IsCount(k) == k \in {"off_total_plays", "off_pass_plays",
                                         "off_run_plays", "def_total_plays_faced",
                                         "def_pass_plays_faced", "def_run_plays_faced"}
                   Number(kv) == IF IsCount(kv[1]) THEN kv[2] \in Nat
                                 ELSE ~IsNaN(kv[2])
                   IsZero(kv) == IF IsCount(kv[1]) THEN kv[2] = 0 ELSE kv[2] = Zero
               IN  /\ \A kv \in Range(off \o def) : Number(kv)
                   /\ Len(off) = 8 /\ Len(def) = 7
                   /\ team_offense = <<>> => \A kv \in Range(off) : IsZero(kv)
                   /\ team_defense = <<>> => \A kv \in Range(def) : IsZero(kv)
                   /\ (team_offense # <<>> /\ None(team_offense, IsPass))
                         => Get(off, "off_pass_epa_play") = Zero
                   /\ (team_offense # <<>> /\ None(team_offense, IsRush))
                         => Get(off, "off_run_epa_play") = Zero
                   /\ (team_offense # <<>> /\ None(team_offense, IsEarlyPass))
                         => Get(off, "off_early_down_pass_epa_play") = Zero
                   /\ (team_defense # <<>> /\ None(team_defense, IsPass))
                         => Get(def, "def_pass_epa_play_allowed") = Zero
                   /\ (team_defense # <<>> /\ None(team_defense, IsRush))
                         => Get(def, "def_run_epa_play_allowed") = Zero
           OfEvents(game_pbp) ==
               (game_pbp # <<>> /\ ColumnsOfPlays(game_pbp) = PbpColumns)
               => Checked(game_pbp, _calculate_offensive_metrics(game_pbp, team),
                          _calculate_defensive_metrics(game_pbp, team))
       IN  (rolling_out.err = "" /\ g.week <= req_week)
           => OfEvents(StoredEventsOf(g.game_id))

\* The rolling frame was computed from a contest of which only the home
\* side's rush play is on store: the home team has a rush rate and zero
\* pass rates, the visiting team has no offensive play and zero metrics.
C23_Witness ==
    /\ rolling_out.err = ""
    /\ \E g \in Range(sched_store[req_season]) :
          LET Seen(game_pbp) ==
                  /\ game_pbp # <<>>
                  /\ \A p \in Range(game_pbp) : p.rush = 1 /\ p.posteam = g.home_team
                  /\ Get(_calculate_offensive_metrics(game_pbp, g.home_team),
                         "off_run_epa_play") = Frac(-20, 1)
                  /\ Get(_calculate_offensive_metrics(game_pbp, g.home_team),
                         "off_pass_epa_play") = Zero
                  /\ _calculate_offensive_metrics(game_pbp, g.away_team)
                       = _get_empty_offensive_metrics
                  /\ Get(_calculate_defensive_metrics(game_pbp, g.away_team),
                         "def_pass_epa_play_allowed") = Zero
          IN  g.week <= req_week /\ Seen(StoredEventsOf(g.game_id))

\* The rows of a history (in frame order) with the N largest weeks: a row
\* is taken when fewer than N rows are later than it, by week or, within
\* one week, by position.
MostRecent(history, N) ==
    LET Later(i) == {j \in 1..Len(history) :
                       \/ Get(history[j], "week") > Get(history[i], "week")
                       \/ /\ Get(history[j], "week") = Get(history[i], "week")
                          /\ j > i}
        RECURSIVE From(_)
        From(i) == IF i > Len(history) THEN <<>>
                   ELSE (IF Cardinality(Later(i)) < N THEN <<history[i]>> ELSE <<>>)
                        \o From(i + 1)
    IN  From(1)

\* C24: each L3/L5/L6 feature of a rolling row (T, W) with history is the
\* arithmetic mean of the metric over the min(N, k) rows with the largest
\* weeks among T's k metric rows of weeks before W, times the shrinkage
\* factor of that window.
C24_WindowSelection ==
    rolling_out.err = "" =>
       LET Selected(r, history) ==
               \A wn \in {"l3", "l5", "l6"} :
                  LET Uses(rows) ==
                          /\ Len(rows) = (IF Len(history) < WindowSize(wn)
                                          THEN Len(history) ELSE WindowSize(wn))
                          /\ \A i \in 1..Len(WindowMetrics) :
                                Get(r, Suffixed(WindowMetrics[i][1], wn))
                                  = FMul(ColumnMean(rows, WindowMetrics[i][2]),
                                         _get_shrinkage_factor(Len(rows), wn, Get(r, "week")))
                  IN  Uses(MostRecent(history, WindowSize(wn)))
           Rows(metrics) ==
               \A r \in Range(rolling_out.val) :
                  LET WithHistory(history) == history # <<>> => Selected(r, history)
                  IN  WithHistory(SelectSeq(metrics,
                                            LAMBDA m : /\ Get(m, "team") = Get(r, "team")
                                                       /\ Get(m, "week") < Get(r, "week")))
       IN  Rows(RequestMetrics)

\* KC has four metric rows before week 4, of weeks 1, 2, 3 and 3: its L3
\* features of week 4 average the rows of weeks 2, 3 and 3 and leave out
\* the row of week 1, which changes the mean.
C24_Witness ==
    /\ rolling_out.err = ""
    /\ LET Seen(history) ==
               /\ Len(history) = 4
               /\ {Get(m, "week") : m \in Range(MostRecent(history, l3_window))} = {2, 3}
               /\ \E m \in Range(history) : Get(m, "week") = 1
               /\ \E r \in Range(rolling_out.val) :
                     /\ Get(r, "team") = "KC" /\ Get(r, "week") = 4
                     /\ Get(r, "off_epa_play_l3")
                          = ColumnMean(MostRecent(history, l3_window), "off_epa_play")
                     /\ Get(r, "off_epa_play_l3") # ColumnMean(history, "off_epa_play")
       IN  Seen(SelectSeq(RequestMetrics,
                          LAMBDA m : Get(m, "team") = "KC" /\ Get(m, "week") < 4))

\* The rolling rows of a frame for a team and week.
RollingRowsOf(frame, team, week) ==
    SelectSeq(frame, LAMBDA q : Get(q, "team") = team /\ Get(q, "week") = week)

\* 1 + (a - b + c + (1 - d)) / 40, kept within [1/2, 2].
SosFormula(a, b, c, d) ==
    LET sum == FAdd(FSub(a, b), FAdd(c, FSub(One, d)))
        x   == FAdd(One, Frac(sum[1], sum[2] * 40))
    IN  IF FLess(x, Frac(1, 2)) THEN Frac(1, 2)
        ELSE IF FLess(Frac(2, 1), x) THEN Frac(2, 1) ELSE x

\* C25: when the rolling frame holds a row of the contest's week for the
\* team and for its opponent, sos_adjustment_factor is
\* clamp(1 + 0.1 * (a - b + c + (1 - d)) / 4, 0.5, 2.0) with a, b, c, d the
\* opponent's L3 offensive EPA per play, defensive EPA allowed per play,
\* offensive success rate and defensive success rate allowed of that week.
C25_SosFormula ==
    situational_out.err = "" =>
       LET Rows(rolling) ==
               \A r \in Range(situational_out.val) :
                  LET From(opp) ==
                          Get(r, "sos_adjustment_factor")
                            = SosFormula(Get(opp, "off_epa_play_l3"),
                                         Get(opp, "def_epa_play_allowed_l3"),
                                         Get(opp, "off_success_rate_l3"),
                                         Get(opp, "def_success_rate_allowed_l3"))
                  IN  (/\ RollingRowsOf(rolling, Get(r, "team"), Get(r, "week")) # <<>>
                       /\ RollingRowsOf(rolling, Get(r, "opponent"), Get(r, "week")) # <<>>)
                      => From(RollingRowsOf(rolling, Get(r, "opponent"), Get(r, "week"))[1])
       IN  Rows(RequestRolling.val)

\* A factor strictly inside the range, other than the default and the
\* zero-history value, was computed from an opponent row with non-zero EPA
\* values.
C25_Witness ==
    /\ situational_out.err = ""
    /\ \E r \in Range(situational_out.val) :
          /\ Get(r, "opponent_off_epa_l3") \notin {Zero, NaN}
          /\ Get(r, "opponent_def_epa_allowed_l3") \notin {Zero, NaN}
          /\ FLess(Frac(1, 2), Get(r, "sos_adjustment_factor"))
          /\ FLess(Get(r, "sos_adjustment_factor"), Frac(2, 1))
          /\ Get(r, "sos_adjustment_factor") \notin {One, Frac(41, 40)}

\* C26 (as claimed): a rolling row (T, W) whose team has at least one but
\* fewer than ewma_min_periods metric rows of weeks before W has every EWMA
\* feature exactly zero.
C26_EwmaFloor ==
    rolling_out.err = "" =>
       LET Rows(metrics) ==
               \A r \in Range(rolling_out.val) :
                  LET Floor(k) ==
                          (1 <= k /\ k < ewma_min_periods)
                          => \A i \in 1..Len(WindowMetrics) :
                                Get(r, Suffixed(WindowMetrics[i][1], "ewma")) = Zero
                  IN  Floor(Len(HistoryBefore(metrics, Get(r, "team"), Get(r, "week"))))
       IN  Rows(RequestMetrics)

\* C27 (as claimed): every call of _combine_team_features that the
\* assembler makes, on a rolling row and a situational row the calculators
\* produced, completes without a missing-field error.
C27_JoinFieldsPresent ==
    \A i \in 1..Len(calls) :
       \A j \in 1..Len(calls[i].combine) :
          LET e == calls[i].combine[j]
          IN  _combine_team_features(e.rolling_data, e.situational_data,
                                     calls[i].game, e.team_type).err = ""

C29_ZeroHistoryNotNeutral ==
    LET L3Keys == {"off_epa_play_l3", "def_epa_play_allowed_l3",
                 "off_success_rate_l3", "def_success_rate_allowed_l3"}
        AllZero(rows) == \A k \in L3Keys : GetOr(rows[1], k, Zero) = Zero
        Holds(rolling) ==
            \A r \in Range(situational_out.val) :
               LET mine   == RollingRowsOf(rolling, Get(r, "team"), Get(r, "week"))
                   theirs == RollingRowsOf(rolling, Get(r, "opponent"), Get(r, "week"))
               IN  /\ (mine # <<>> /\ theirs # <<>> /\ AllZero(theirs))
                      => /\ Get(r, "sos_adjustment_factor") = Frac(41, 40)
                         /\ Get(r, "sos_adjustment_factor") # One
                   /\ (mine = <<>> \/ theirs = <<>>)
                      => Get(r, "sos_adjustment_factor") = One
    IN  situational_out.err = "" => Holds(RequestRolling.val)

\* BUF meets KC in week 1, where KC's rolling row is the zero-history default:
\* BUF's factor is 41/40; in week 2 KC meets NE, which has no rolling row: the
\* factor of that row is 1.
C29_Witness ==
    /\ situational_out.err = ""
    /\ LET L3Keys == {"off_epa_play_l3", "def_epa_play_allowed_l3",
                    "off_success_rate_l3", "def_success_rate_allowed_l3"}
           Seen(rolling) ==
               \E r, q \in Range(situational_out.val) :
                  /\ Get(r, "team") = "BUF" /\ Get(r, "opponent") = "KC"
                  /\ Get(r, "week") = 1
                  /\ RollingRowsOf(rolling, "BUF", 1) # <<>>
                  /\ RollingRowsOf(rolling, "KC", 1) # <<>>
                  /\ \A k \in L3Keys : Get(RollingRowsOf(rolling, "KC", 1)[1], k) = Zero
                  /\ Get(r, "sos_adjustment_factor") = Frac(41, 40)
                  /\ Get(q, "team") = "KC" /\ Get(q, "opponent") = "NE"
                  /\ RollingRowsOf(rolling, "NE", Get(q, "week")) = <<>>
                  /\ Get(q, "sos_adjustment_factor") = One
       IN  Seen(RequestRolling.val)

============================================================================
